---- MODULE Spec2Model ----
(***************************************************************************)
(* Model of src/prediction/predictor_model.py: the Forecaster wrapper      *)
(* (data preparation, fit, predict, save) around the external darts        *)
(* TransformerModel.                                                       *)
(*                                                                         *)
(* Conventions.                                                            *)
(*  - A table (pandas DataFrame) is [rows, cols]: rows is the sequence of  *)
(*    its rows in table order, cols the set of its column names.  Position *)
(*    p of rows is the row with pandas index label p-1.                    *)
(*  - A Python list or a dict keyed 0..n-1 is a sequence; Python index i   *)
(*    is position i+1.                                                     *)
(*  - None is the value None_ (0 for history lengths: both are falsy in    *)
(*    the code's "if history_length:" tests; NoTable for a table).         *)
(*  - Real numbers are exact rationals <<n, d>> with d > 0, in lowest      *)
(*    terms, so that scaling and de-scaling are computed, not assumed.     *)
(*  - Past/static covariates are not modelled (no claim reads them); the   *)
(*    future-covariate block is kept as the references of its rows.        *)
(***************************************************************************)
EXTENDS Integers, Sequences, FiniteSets, TLC

\* ---------------------------------------------------------------- bounds

\* Longest training table, in rows, where one fit call is explored.
MaxRows == 3
\* Longest training table, in rows, where whole call sequences are explored.
MaxLifeRows == 2
\* Longest test table handed to fit, in rows.
MaxTestRows == 2
\* Fit is called only while the schema's future-covariate list, extended by the
\* call, is no longer than this (a calendar schema grows it at every call).
MaxCovs == 5

EntityIds == {1, 2}
TargetValues == {1, 3}
ForecastLengths == {1, 2}
\* history_forecast_ratio at construction (0: not given).
HistoryRatios == {0, 1, 2}
\* history_length handed to fit (0: None).
HistoryLengthArgs == {0, 1, 2}

None_ == 0
NoTable == [rows |-> <<>>, cols |-> {"<None>"}]

\* ------------------------------------------------------------- rationals

Abs(n) == IF n < 0 THEN -n ELSE n

RECURSIVE Gcd(_, _)
Gcd(a, b) == IF b = 0 THEN a ELSE Gcd(b, a % b)

\* n/d in lowest terms with a positive denominator (d # 0).
Rat(n, d) ==
  LET g == Gcd(Abs(n), Abs(d))
      s == IF d < 0 THEN -1 ELSE 1
  IN  <<(s * n) \div g, (s * d) \div g>>

RInt(n) == <<n, 1>>
RAdd(a, b) == Rat(a[1] * b[2] + b[1] * a[2], a[2] * b[2])
RSub(a, b) == Rat(a[1] * b[2] - b[1] * a[2], a[2] * b[2])
RMul(a, b) == Rat(a[1] * b[1], a[2] * b[2])
RDiv(a, b) == Rat(a[1] * b[2], a[2] * b[1])

\* ------------------------------------------------------------ sequences

RECURSIVE SeqMin(_)
SeqMin(s) ==
  IF Len(s) = 1 THEN s[1]
  ELSE LET m == SeqMin(Tail(s)) IN IF s[1] < m THEN s[1] ELSE m

RECURSIVE SeqMax(_)
SeqMax(s) ==
  IF Len(s) = 1 THEN s[1]
  ELSE LET m == SeqMax(Tail(s)) IN IF s[1] > m THEN s[1] ELSE m

RECURSIVE Flatten(_)
Flatten(ss) == IF ss = <<>> THEN <<>> ELSE ss[1] \o Flatten(Tail(ss))

\* The positions of rows, from position from on, whose id is id, in table order.
RECURSIVE PositionsOfId(_, _, _)
PositionsOfId(rows, id, from) ==
  IF from > Len(rows) THEN <<>>
  ELSE (IF rows[from].id = id THEN <<from>> ELSE <<>>)
       \o PositionsOfId(rows, id, from + 1)

\* The elements of a finite set of integers in ascending order.
RECURSIVE SortedSeq(_)
SortedSeq(S) ==
  IF S = {} THEN <<>>
  ELSE LET m == CHOOSE x \in S : \A y \in S : x <= y
       IN  <<m>> \o SortedSeq(S \ {m})

HasDuplicates(s) == \E i, j \in 1..Len(s) : i # j /\ s[i] = s[j]

\* df.iloc[-n:] for n > 0: the last n elements (all of them when n >= len).
Tail_n(s, n) ==
  IF n >= Len(s) THEN s ELSE SubSeq(s, Len(s) - n + 1, Len(s))

\* ------------------------------------------------------ MinMaxScaler

\* MinMaxScaler().fit(block) for a non-empty 1-column block, feature range
\* [0, 1]: scale_ = 1 / data_range, with a zero range replaced by 1, and
\* min_ = 0 - data_min * scale_.
ScalerFit(block) ==
  LET lo == SeqMin(block)
      hi == SeqMax(block)
      range == IF hi - lo = 0 THEN 1 ELSE hi - lo
      scale == Rat(1, range)
  IN  [data_min |-> lo, data_max |-> hi, scale_ |-> scale,
       min_ |-> RSub(RInt(0), RMul(RInt(lo), scale))]

\* scaler.transform: X * scale_ + min_, on one value.
Transform(scaler, x) == RAdd(RMul(x, scaler.scale_), scaler.min_)

\* A de-scaling that shifts back but does not divide by scale_.
InverseTransformNoScale(scaler, x) == RSub(x, scaler.min_)

\* scaler.inverse_transform: (X - min_) / scale_, on one value.
InverseTransform(scaler, x) == RDiv(RSub(x, scaler.min_), scaler.scale_)

TransformAll(scaler, xs) == [i \in 1..Len(xs) |-> Transform(scaler, xs[i])]
InverseTransformAll(scaler, xs) ==
  [i \in 1..Len(xs) |-> InverseTransform(scaler, xs[i])]

\* --------------------------------------------------------- _prepare_data

YearCol == "t_year"
MonthCol == "t_month"

IsCalendar(sch) == sch.time_col_dtype \in {"DATE", "DATETIME"}

\* future_covariates_names once the calendar branch has run: the list object
\* of the schema, extended in place by "+=" for a calendar time column.
FutureCovariatesNames(sch) ==
  IF IsCalendar(sch) THEN sch.future_covariates \o <<YearCol, MonthCol>>
  ELSE sch.future_covariates

\* history after the calendar branch: the two derived columns are assigned.
WithCalendarCols(table, sch) ==
  IF IsCalendar(sch) /\ table # NoTable
  THEN [table EXCEPT !.cols = @ \cup {YearCol, MonthCol}]
  ELSE table

\* The distinct ids of rows in the order of their first occurrence.
RECURSIVE FirstOccurrence(_)
FirstOccurrence(rows) ==
  IF rows = <<>> THEN <<>>
  ELSE LET before == FirstOccurrence(SubSeq(rows, 1, Len(rows) - 1))
           id == rows[Len(rows)].id
       IN  IF \E k \in 1..Len(before) : before[k] = id THEN before
           ELSE Append(before, id)

\* A grouping that keeps the keys as they come (groupby(..., sort=False)).
AllIdsUnsorted(rows) == FirstOccurrence(rows)

\* list(history.groupby(id_col).groups.keys()): groupby sorts its keys.
AllIds(rows) == SortedSeq({rows[p].id : p \in 1..Len(rows)})

\* A group whose rows come out newest first.
GetGroupReversed(rows, id) ==
  LET ps == PositionsOfId(rows, id, 1)
      n == Len(ps)
  IN  [k \in 1..n |-> [idx |-> ps[n + 1 - k], y |-> rows[ps[n + 1 - k]].y]]

\* groups_by_ids.get_group(id_).drop(columns=id_col): the rows of id_, in table
\* order, each with its index label and without the id column.
GetGroup(rows, id) ==
  LET ps == PositionsOfId(rows, id, 1)
  IN  [k \in 1..Len(ps) |-> [idx |-> ps[k], y |-> rows[ps[k]].y]]

AllSeries(rows) ==
  LET ids == AllIds(rows) IN [k \in 1..Len(ids) |-> GetGroup(rows, ids[k])]

\* "if history_length: s = s.iloc[-self.history_length:]": the test reads the
\* argument, the slice reads the instance's attribute.
Truncate(s, arg_length, self_length) ==
  IF arg_length # None_ THEN Tail_n(s, self_length) ELSE s

TargetBlock(s) == [k \in 1..Len(s) |-> s[k].y]

\* A test block that is the whole test table, whatever the entity.
TestGroupAll(rows, id) == [q \in 1..Len(rows) |-> q]

\* get_group on the test table, with the id column dropped: index labels only.
TestGroup(rows, id) == PositionsOfId(rows, id, 1)

\* pd.concat([train_future_covariates, test_future_covariates], axis=0): the
\* rows of the block, each named by its table and index label.
FutureBlock(train_series, test_rows) ==
  [k \in 1..Len(train_series) |-> [tab |-> "train", idx |-> train_series[k].idx]]
  \o [k \in 1..Len(test_rows) |-> [tab |-> "test", idx |-> test_rows[k]]]

\* The whole of _prepare_data on (history, test_dataframe) for an instance whose
\* history_length attribute is self_length.  error is the exception that ends
\* the call ("none": it returns), stage how far it got; dup is what assembling
\* a block under a name list holding duplicates does (left open by pandas/darts).
PrepareData(h, t, sch, arg_length, self_length, dup) ==
  LET names == FutureCovariatesNames(sch)
      ids == AllIds(h.rows)
      all_series == AllSeries(h.rows)
      kept == [k \in 1..Len(ids) |-> Truncate(all_series[k], arg_length, self_length)]
      scalers == [k \in 1..Len(ids) |-> ScalerFit(TargetBlock(kept[k]))]
      targets == [k \in 1..Len(ids) |->
                    TransformAll(scalers[k],
                      [j \in 1..Len(kept[k]) |-> RInt(kept[k][j].y)])]
      test_ids == {t.rows[p].id : p \in 1..Len(t.rows)}
      future == IF names = <<>> THEN <<>>
                ELSE [k \in 1..Len(ids) |->
                        FutureBlock(kept[k], TestGroup(t.rows, ids[k]))]
      base == [error |-> "none", stage |-> "done", names |-> names,
               grouped |-> FALSE, train_cols |-> WithCalendarCols(h, sch).cols,
               test_cols |-> WithCalendarCols(t, sch).cols,
               all_ids |-> <<>>, all_series |-> <<>>, kept |-> <<>>,
               scalers |-> <<>>, targets |-> <<>>, future |-> <<>>]
      grouped == [base EXCEPT !.grouped = TRUE, !.all_ids = ids,
                              !.all_series = all_series]
  IN  IF IsCalendar(sch) /\ t = NoTable
      THEN \* line 215: test_dataframe[...] on None
           [base EXCEPT !.error = "TypeError", !.stage = "calendar"]
      ELSE IF arg_length # None_ /\ self_length = None_
      THEN \* line 232: -self.history_length on None
           [grouped EXCEPT !.error = "TypeError", !.stage = "truncate"]
      ELSE IF names # <<>> /\ t = NoTable
      THEN \* line 260: test_dataframe.groupby on None
           [grouped EXCEPT !.error = "AttributeError", !.stage = "test_groupby",
                           !.kept = kept]
      ELSE IF names # <<>> /\ ~({ids[k] : k \in 1..Len(ids)} \subseteq test_ids)
      THEN \* line 262: get_group of an id the test table does not hold
           [grouped EXCEPT !.error = "KeyError", !.stage = "get_group",
                           !.kept = kept]
      ELSE IF names # <<>> /\ HasDuplicates(names) /\ dup = "raise"
      THEN [grouped EXCEPT !.error = "ValueError", !.stage = "assemble",
                           !.kept = kept]
      ELSE [grouped EXCEPT !.kept = kept, !.scalers = scalers,
                           !.targets = targets, !.future = future]

\* ------------------------------------------------------------------ state

VARIABLES
  history,            \* the caller's training table
  test_dataframe,     \* the caller's test table handed to fit, or NoTable
  schema,             \* the ForecastingSchema object shared by all calls
  is_trained,         \* self._is_trained
  history_length,     \* self.history_length (None_: not configured)
  all_ids,            \* self.all_ids (<<>> before the first assignment)
  scalers,            \* self.scalers, index i at position i+1
  targets_series,     \* self.targets_series: the scaled target values
  future_covariates,  \* self.future_covariates (<<>>: None)
  fit_blocks,         \* history: the target blocks targets_series was scaled from
  last_fit,           \* history: how the most recent fit call ended
  last                \* the most recent call: its arguments, locals and outcome

vars == <<history, test_dataframe, schema, is_trained, history_length, all_ids,
          scalers, targets_series, future_covariates, fit_blocks, last_fit, last>>

TrainCols == {"id", "t", "y", "x"}
TestCols == {"id", "t", "x"}

SeqsUpTo(S, n) == UNION {[1..k -> S] : k \in 1..n}

TrainRows == [id : EntityIds, y : TargetValues]
TrainTables(n) == [rows : SeqsUpTo(TrainRows, n), cols : {TrainCols}]
TestTables(n) ==
  [rows : SeqsUpTo([id : EntityIds], n), cols : {TestCols}] \cup {NoTable}

\* The test table that goes with a training table under a forecast horizon of
\* n: n rows per entity, the entities in the order of their keys.
PairedTest(h, n) ==
  [rows |-> Flatten([k \in 1..Len(AllIds(h.rows)) |->
                       [j \in 1..n |-> [id |-> AllIds(h.rows)[k]]]]),
   cols |-> TestCols]

\* A schema object: declared is the future-covariate list of the schema file,
\* future_covariates the list attribute the forecaster reads and extends.
Schemas ==
  {[time_col_dtype |-> d, forecast_length |-> n, declared |-> c,
    future_covariates |-> c] :
     d \in {"INT", "DATE"}, n \in ForecastLengths, c \in {<<>>, <<"x">>}}

\* What the external model may forecast for one series over n steps, in scaled
\* units: a ramp 0, 1/2, 1, ... or the constant 1.
ForecastSeries(n) == {[j \in 1..n |-> Rat(j - 1, 2)], [j \in 1..n |-> RInt(1)]}

NoPrep ==
  [error |-> "none", stage |-> "none", names |-> <<>>, grouped |-> FALSE,
   train_cols |-> {}, test_cols |-> {}, all_ids |-> <<>>, all_series |-> <<>>,
   kept |-> <<>>, scalers |-> <<>>, targets |-> <<>>, future |-> <<>>]

NoCall ==
  [op |-> "init", error |-> "none", arg_length |-> None_, prep |-> NoPrep,
   external |-> {}, wrote_files |-> FALSE, n_rows |-> 0,
   forecast |-> <<>>, column |-> <<>>, has_column |-> FALSE]

\* Forecaster.__init__: history_length = forecast_length * history_forecast_ratio
\* when the ratio is given, None otherwise; _is_trained = False.
Construct(sch, ratio) ==
  /\ schema = sch
  /\ is_trained = FALSE
  /\ history_length = (IF ratio # 0 THEN sch.forecast_length * ratio ELSE None_)
  /\ all_ids = <<>>
  /\ scalers = <<>>
  /\ targets_series = <<>>
  /\ future_covariates = <<>>
  /\ fit_blocks = <<>>
  /\ last_fit = "none"
  /\ last = NoCall

\* One instance and its life: a training table, a test table that goes with it
\* (built for a horizon that may or may not be the schema's), and any sequence
\* of fit, predict and save calls.
Init ==
  /\ history \in TrainTables(MaxLifeRows)
  /\ test_dataframe \in {PairedTest(history, n) : n \in ForecastLengths}
  /\ \E sch \in Schemas, ratio \in HistoryRatios : Construct(sch, ratio)

\* Data preparation on every pair of tables: a fresh instance and one fit call.
InitPrep ==
  /\ history \in TrainTables(MaxRows)
  /\ test_dataframe \in TestTables(MaxTestRows)
  /\ \E sch \in Schemas, ratio \in HistoryRatios : Construct(sch, ratio)

\* ------------------------------------------------------------------- fit

\* An instance marked trained as soon as the data is prepared.
FitCompletesEarly(prepared, ext) == prepared

\* fit's last four statements run only when _prepare_data and the external
\* model's fit have both returned.
FitCompletes(prepared, ext) == prepared /\ ext = "ok"

\* Forecaster.fit(history, data_schema, history_length = arg_length,
\* test_dataframe): _prepare_data (p: what it did), then the external model's
\* fit (ext: whether it returns or raises), then the retained state.
FitCall(p, arg_length, ext) ==
  LET prepared == p.error = "none"
      ok == FitCompletes(prepared, ext)
      returned == prepared /\ ext = "ok"
  IN  /\ history' = WithCalendarCols(history, schema)
      /\ test_dataframe' = WithCalendarCols(test_dataframe, schema)
      /\ schema' = [schema EXCEPT !.future_covariates = FutureCovariatesNames(schema)]
      /\ all_ids' = (IF p.grouped THEN p.all_ids ELSE all_ids)
      /\ scalers' = (IF prepared THEN p.scalers ELSE scalers)
      /\ is_trained' = (is_trained \/ ok)
      /\ targets_series' = (IF ok THEN p.targets ELSE targets_series)
      /\ future_covariates' = (IF ok THEN p.future ELSE future_covariates)
      /\ fit_blocks' = (IF returned
                        THEN [k \in 1..Len(p.kept) |-> TargetBlock(p.kept[k])]
                        ELSE fit_blocks)
      /\ last_fit' = (IF returned THEN "ok" ELSE "failed")
      /\ last' = [NoCall EXCEPT
                    !.op = "fit",
                    !.error = (IF ~prepared THEN p.error
                               ELSE IF ext = "ok" THEN "none" ELSE "ExternalError"),
                    !.arg_length = arg_length,
                    !.prep = p,
                    !.external = (IF prepared THEN {"fit"} ELSE {})]
      /\ UNCHANGED history_length

Fit ==
  /\ Len(FutureCovariatesNames(schema)) <= MaxCovs
  /\ \E arg_length \in HistoryLengthArgs :
       \E dup \in (IF HasDuplicates(FutureCovariatesNames(schema))
                   THEN {"ok", "raise"} ELSE {"ok"}) :
         \E p \in {PrepareData(history, test_dataframe, schema, arg_length,
                               history_length, dup)} :
           \E ext \in (IF p.error = "none" THEN {"ok", "raise"} ELSE {"raise"}) :
             FitCall(p, arg_length, ext)

\* --------------------------------------------------------------- predict

\* A loop that de-scales every forecast with the scaler of index 0.
PredictionValuesFirstScaler(forecast, scs) ==
  Flatten([k \in 1..Len(forecast) |-> InverseTransformAll(scs[1], forecast[k])])

\* The loop of predict: scalers[index].inverse_transform on each forecast, the
\* values appended entity by entity.
PredictionValues(forecast, scs) ==
  Flatten([k \in 1..Len(forecast) |-> InverseTransformAll(scs[k], forecast[k])])

\* "if not self._is_trained: raise NotFittedError", in predict and in save.
RaisesNotFitted(trained) == ~trained

\* Forecaster.predict(test_data, prediction_col_name) on a test table of n rows;
\* forecast is what the external model returns: one series of forecast_length
\* scaled values per retained target series.
PredictCall(n, forecast, ext) ==
  LET refused == RaisesNotFitted(is_trained)
      err == IF refused THEN "NotFittedError"
             ELSE IF ext = "raise" THEN "ExternalError"
             ELSE IF Len(scalers) < Len(forecast) THEN "KeyError"
             ELSE IF Len(forecast) * schema.forecast_length # n THEN "ValueError"
             ELSE "none"
  IN  /\ last' = [NoCall EXCEPT
                    !.op = "predict",
                    !.error = err,
                    !.external = (IF refused THEN {} ELSE {"predict"}),
                    !.n_rows = n,
                    !.forecast = (IF ~refused /\ ext = "ok" THEN forecast ELSE <<>>),
                    !.has_column = (err = "none"),
                    !.column = (IF err = "none"
                                THEN PredictionValues(forecast, scalers) ELSE <<>>)]
      /\ UNCHANGED <<history, test_dataframe, schema, is_trained, history_length,
                     all_ids, scalers, targets_series, future_covariates,
                     fit_blocks, last_fit>>

\* predict is handed a fresh copy of the caller's test table.
Predict ==
  \/ \E forecast \in [1..Len(targets_series) ->
                        ForecastSeries(schema.forecast_length)] :
       PredictCall(Len(test_dataframe.rows), forecast, "ok")
  \/ PredictCall(Len(test_dataframe.rows), <<>>, "raise")

\* ------------------------------------------------------------------ save

\* Forecaster.save(model_dir_path): the external model's save, then joblib.dump.
Save ==
  LET refused == RaisesNotFitted(is_trained)
  IN  /\ last' = [NoCall EXCEPT
                    !.op = "save",
                    !.error = (IF refused THEN "NotFittedError" ELSE "none"),
                    !.external = (IF refused THEN {} ELSE {"save"}),
                    !.wrote_files = ~refused]
      /\ UNCHANGED <<history, test_dataframe, schema, is_trained, history_length,
                     all_ids, scalers, targets_series, future_covariates,
                     fit_blocks, last_fit>>

\* ---------------------------------------------------------- specifications

Next == Fit \/ Predict \/ Save

Spec == Init /\ [][Next]_vars

\* train_predictor_model: the constructor followed by one fit call.
FitOnce == last.op = "init" /\ Fit

NextPrep == FitOnce

SpecPrep == InitPrep /\ [][NextPrep]_vars

\* ------------------------------------------------------------ properties

IdsOf(table) == {table.rows[p].id : p \in 1..Len(table.rows)}

RowsOfId(table, id) == {p \in 1..Len(table.rows) : table.rows[p].id = id}

RECURSIVE SumLens(_)
SumLens(ss) == IF ss = <<>> THEN 0 ELSE Len(ss[1]) + SumLens(Tail(ss))

\* No fit call on the instance has completed yet.
NeverFitted == fit_blocks = <<>>

\* C1: a predict or save call on an instance on which no fit call has completed
\* fails with NotFittedError, having called nothing of the external model,
\* written no file and added no column to the test table.
C1_NotFittedBeforeFit ==
  (last.op \in {"predict", "save"} /\ NeverFitted) =>
    /\ last.error = "NotFittedError"
    /\ last.external = {}
    /\ ~last.wrote_files
    /\ ~last.has_column

\* C1 happens: predict is refused on an instance whose only fit call so far
\* has failed.
C1_Witness ==
  /\ last.op = "predict"
  /\ NeverFitted
  /\ last_fit = "failed"
  /\ last.error = "NotFittedError"

\* C2: predict right after a successful fit on K entities with horizon H, on a
\* test table of K*H rows, writes a column of K*H values; rows i*H .. i*H+H-1
\* are the external model's forecast for the i-th series, de-scaled by the
\* scaler stored under index i.
C2_PredictColumn ==
  LET K == Len(targets_series)
      H == schema.forecast_length
  IN  (/\ last.op = "predict"
       /\ last_fit = "ok"
       /\ last.error # "ExternalError"
       /\ last.n_rows = K * H) =>
        /\ last.error = "none"
        /\ last.has_column
        /\ Len(last.column) = K * H
        /\ Len(last.column) = last.n_rows
        /\ \A i \in 0..(K - 1) : \A j \in 0..(H - 1) :
             last.column[i * H + j + 1] =
               InverseTransform(scalers[i + 1], last.forecast[i + 1][j + 1])

\* C2 happens: two entities with different scalers, horizon 2, different
\* forecasts, four values written.
C2_Witness ==
  /\ last.op = "predict"
  /\ last_fit = "ok"
  /\ last.has_column
  /\ Len(targets_series) = 2
  /\ schema.forecast_length = 2
  /\ Len(last.column) = 4
  /\ scalers[1] # scalers[2]
  /\ last.forecast[1] # last.forecast[2]

\* C3: for every entity index of a prepared panel, de-scaling with the scaler
\* stored under that index the scaled target sequence that scaler produced
\* gives back the entity's target values.
C3_RoundTrip ==
  (last.op = "fit" /\ last.prep.error = "none") =>
    /\ Len(scalers) = Len(last.prep.targets)
    /\ \A k \in 1..Len(scalers) :
         InverseTransformAll(scalers[k], last.prep.targets[k]) =
           [j \in 1..Len(last.prep.kept[k]) |-> RInt(last.prep.kept[k][j].y)]

\* C3 happens: one entity whose target values differ and one whose values are
\* all equal (a zero data range), both de-scaled back.
C3_Witness ==
  /\ last.op = "fit"
  /\ last.prep.error = "none"
  /\ Len(scalers) = 2
  /\ \E k \in 1..2 : scalers[k].data_min = scalers[k].data_max
  /\ \E k \in 1..2 :
       /\ scalers[k].data_min < scalers[k].data_max
       /\ last.prep.targets[k] # [j \in 1..Len(last.prep.kept[k]) |->
                                    RInt(last.prep.kept[k][j].y)]

\* C4: grouping a training table of N rows holding K distinct ids gives K
\* sub-frames, pairwise disjoint, of N rows in all, every row in the sub-frame
\* of its own id, each sub-frame in table order.
C4_SegmentPartitions ==
  last.prep.grouped =>
    LET S == last.prep.all_series
        N == Len(history.rows)
        Labels(k) == {S[k][j].idx : j \in 1..Len(S[k])}
    IN  /\ Len(S) = Cardinality(IdsOf(history))
        /\ \A k1, k2 \in 1..Len(S) : k1 # k2 => Labels(k1) \cap Labels(k2) = {}
        /\ SumLens(S) = N
        /\ \A p \in 1..N :
             \E k \in 1..Len(S) :
               /\ last.prep.all_ids[k] = history.rows[p].id
               /\ \E j \in 1..Len(S[k]) :
                    S[k][j].idx = p /\ S[k][j].y = history.rows[p].y
        /\ \A k \in 1..Len(S) : \A j1, j2 \in 1..Len(S[k]) :
             j1 < j2 => S[k][j1].idx < S[k][j2].idx

\* C4 happens: three rows, two entities, the rows of one entity around the row
\* of the other.
C4_Witness ==
  /\ last.prep.grouped
  /\ Len(history.rows) = 3
  /\ history.rows[1].id = history.rows[3].id
  /\ history.rows[1].id # history.rows[2].id
  /\ Len(last.prep.all_series) = 2

\* C5 as claimed: a fit call with history_length = L >= 1 derives, for every
\* entity of more than L rows, a target series of exactly the entity's last L
\* rows, whatever the instance's own history length, and the training part of
\* the entity's future-covariate block is those L rows too.
C5_TruncatesToArgument ==
  (last.op = "fit" /\ last.arg_length # None_ /\ last.prep.grouped) =>
    LET L == last.arg_length
        S == last.prep.all_series
    IN  /\ last.prep.stage # "truncate"
        /\ Len(last.prep.kept) = Len(S)
        /\ \A k \in 1..Len(S) :
             Len(S[k]) > L =>
               /\ last.prep.kept[k] = SubSeq(S[k], Len(S[k]) - L + 1, Len(S[k]))
               /\ last.prep.future # <<>> =>
                    {e \in {last.prep.future[k][i] :
                              i \in 1..Len(last.prep.future[k])} : e.tab = "train"}
                    = {[tab |-> "train", idx |-> S[k][j].idx] :
                         j \in (Len(S[k]) - L + 1)..Len(S[k])}

\* C6 as claimed: after any fit call under a calendar schema, the schema's
\* future-covariate list is the declared list followed by the year and month
\* names, once each, and both columns are in the training and the test table
\* when the panel is grouped.
C6_TwoDerivedColumns ==
  (last.op = "fit" /\ IsCalendar(schema)) =>
    /\ schema.future_covariates = schema.declared \o <<YearCol, MonthCol>>
    /\ last.prep.grouped =>
         /\ {YearCol, MonthCol} \subseteq last.prep.train_cols
         /\ {YearCol, MonthCol} \subseteq last.prep.test_cols

\* C7 as claimed: the entities are grouped in the order of the first occurrence
\* of their ids in the panel.
C7_FirstOccurrenceOrder ==
  last.prep.grouped => all_ids = FirstOccurrence(history.rows)

\* C7, amended: the entities are grouped in ascending order of their ids, each
\* id of the panel once; the k-th sub-frame holds rows of the k-th id only and
\* has no id column; scalers and target series follow the same order.
C7_SortedKeyOrder ==
  last.prep.grouped =>
    LET S == last.prep.all_series IN
    /\ \A k \in 1..(Len(all_ids) - 1) : all_ids[k] < all_ids[k + 1]
    /\ {all_ids[k] : k \in 1..Len(all_ids)} = IdsOf(history)
    /\ Len(S) = Len(all_ids)
    /\ \A k \in 1..Len(S) : \A j \in 1..Len(S[k]) :
         /\ history.rows[S[k][j].idx].id = all_ids[k]
         /\ "id" \notin DOMAIN S[k][j]
    /\ last.prep.error = "none" =>
         /\ Len(scalers) = Len(all_ids)
         /\ Len(last.prep.targets) = Len(all_ids)
         /\ \A k \in 1..Len(all_ids) :
              /\ Len(last.prep.targets[k]) = Len(last.prep.kept[k])
              /\ scalers[k].data_min \in
                   {history.rows[q].y : q \in RowsOfId(history, all_ids[k])}

\* C7 happens: the panel's first row is of the larger id, a later row of the
\* smaller one.
C7_Witness ==
  /\ last.prep.grouped
  /\ last.prep.error = "none"
  /\ Len(all_ids) = 2
  /\ history.rows[1].id = all_ids[2]

\* C8 as claimed: whenever the instance is trained, there are as many stored
\* scalers as retained target series and the scaler under index i is the one
\* fit on the target block of the i-th retained series.
C8_ScalersMatchRetainedSeries ==
  is_trained =>
    /\ Len(scalers) = Len(targets_series)
    /\ \A i \in 1..Len(targets_series) : scalers[i] = ScalerFit(fit_blocks[i])

\* block is nTrain training rows of entity id, the last ones it has, in table
\* order, followed by every test row of the same id, in table order.
TrainThenTest(block, id, nTrain) ==
  LET testRows == RowsOfId(test_dataframe, id)
      trainRows == RowsOfId(history, id)
  IN  /\ Len(block) = nTrain + Cardinality(testRows)
      /\ \A i \in 1..Len(block) :
           IF i <= nTrain
           THEN block[i].tab = "train" /\ block[i].idx \in trainRows
           ELSE block[i].tab = "test" /\ block[i].idx \in testRows
      /\ \A i, j \in 1..Len(block) :
           (i < j /\ block[i].tab = block[j].tab) => block[i].idx < block[j].idx
      /\ nTrain > 0 =>
           Cardinality({p \in trainRows : p >= block[1].idx}) = nTrain

\* C9 as claimed: with a non-empty future-covariate list, a fit call whose test
\* table does not hold exactly the ids of the training table fails and leaves
\* the instance untrained.
C9_FailsOnAnyIdMismatch ==
  (/\ last.op = "fit"
   /\ last.prep.names # <<>>
   /\ IdsOf(test_dataframe) # IdsOf(history)) =>
     last.error # "none" /\ ~is_trained

\* C9, amended: with a non-empty future-covariate list, a fit call fails and
\* leaves the instance untrained when an id of the training table is missing
\* from the test table; ids only the test table holds are ignored; and when
\* data preparation returns, every id of the training table is in the test
\* table and the block of each entity is its retained training rows followed by
\* the test rows of the same id, which a successful fit retains.
C9_FailsOnMissingTrainingId ==
  (last.op = "fit" /\ last.prep.names # <<>>) =>
    /\ ~(IdsOf(history) \subseteq IdsOf(test_dataframe)) =>
         last.error # "none" /\ ~is_trained
    /\ last.prep.error = "none" =>
         /\ IdsOf(history) \subseteq IdsOf(test_dataframe)
         /\ Len(last.prep.future) = Len(all_ids)
         /\ \A k \in 1..Len(all_ids) :
              TrainThenTest(last.prep.future[k], all_ids[k],
                            Len(last.prep.kept[k]))
    /\ last.error = "none" =>
         is_trained /\ future_covariates = last.prep.future

\* C9 happens: the test table holds an id the training table does not, the
\* call succeeds, and a block has training rows and test rows.
C9_Witness ==
  /\ last.op = "fit"
  /\ last.prep.names # <<>>
  /\ last.error = "none"
  /\ IdsOf(history) # IdsOf(test_dataframe)
  /\ IdsOf(history) \subseteq IdsOf(test_dataframe)
  /\ Len(test_dataframe.rows) = 2
  /\ test_dataframe.rows[1].id \notin IdsOf(history)
  /\ Len(future_covariates[1]) = 3

\* C10 as claimed: under a schema declaring no future covariate, whatever its
\* time column, a fit call with no test table (and no history length) prepares
\* the data without error, reaches the external model's fit and, when that
\* returns, marks the instance trained.
C10_NoTestTableNeeded ==
  (/\ last.op = "fit"
   /\ schema.declared = <<>>
   /\ test_dataframe = NoTable
   /\ last.arg_length = None_) =>
     /\ last.prep.error = "none"
     /\ "fit" \in last.external
     /\ last.error = "none" => is_trained

====
